---------------------------- MODULE Spec2Model ----------------------------
(***************************************************************************)
(* A model of the cloud-logging facade (src/logger.go): a Logger that      *)
(* forwards levelled entries to a remote logging client and falls back to  *)
(* a local log.Logger when the client is absent or the context is done.    *)
(***************************************************************************)
EXTENDS Naturals, Sequences, FiniteSets, TLC

VARIABLES
    made,           \* NewLogger has returned a *Logger
    newErr,         \* the error NewLogger returned: "none" (not called), "nil", "err"
    l,              \* the Logger's fields: systemCtx, logger, backup, gcpClient
    ctxDone,        \* per context: its Done channel is closed
    backupOut,      \* per fallback sink: the lines Printf wrote, each with its writer
    remoteOut,      \* the entries handed to logging.Logger.Log, each with its writer
    clientLabels,   \* the CommonLabels the remote logger was configured with
    closeResults,   \* what each Close call returned
    releaseResults, \* what each gcpClient.Close call returned
    calls,          \* history of the completed sequential level calls
    callers,        \* the concurrent callers: position in log() and locals
    given,          \* the arguments NewLogger was called with, and the acquisition outcome
    pin,            \* pure-function check: the drawn input
    pout            \* pure-function check: the computed result

vars == <<made, newErr, l, ctxDone, backupOut, remoteOut, clientLabels,
          closeResults, releaseResults, calls, callers, given, pin, pout>>

loggerVars == <<made, newErr, l, ctxDone, backupOut, remoteOut, clientLabels,
                closeResults, releaseResults, calls, callers, given>>

-----------------------------------------------------------------------------
(* Bounds *)

MaxCalls == 2
MaxClose == 1
NumCallers == 2
MaxTokens == 3

(* Input universes *)

nil == "nil"
Contexts == {"ctx1", "ctx2"}
Backups == {"bk1", "bk2"}
Msgs == {"boom"}
PureMsgs == {"boom", "hi"}
PureKeys == {"k1", "k2", "msg"}
PureVals == {"v", "w", "boom"}
Tokens == {"k", "msg", "v"}
\* every key in use, in Go's sorted order (fmt prints maps sorted by key)
SortedKeys == <<"env", "k", "k1", "k2", "msg">>

EmptyMap == [x \in {} |-> "v"]
MapsOver(keys, vals) == UNION {[D -> vals] : D \in SUBSET keys}
LabelSets == {[x \in {"env"} |-> "test"]}
\* the details the level calls are made with
CallDetails == {EmptyMap, [x \in {"k"} |-> "v"], [x \in {"msg"} |-> "v"]}

-----------------------------------------------------------------------------
(* Severities: logging.Error, logging.Warning, logging.Info, logging.Debug *)

SevError == "Error"
SevWarning == "Warning"
SevInfo == "Info"
SevDebug == "Debug"

\* severity.String()
SeverityString(severity) ==
    CASE severity = SevError -> "ERROR"
      [] severity = SevWarning -> "WARNING"
      [] severity = SevInfo -> "INFO"
      [] severity = SevDebug -> "DEBUG"

-----------------------------------------------------------------------------
(* payload: msg first, then every detail copied over it *)

RECURSIVE CopyDetails(_, _, _)
CopyDetails(p, details, todo) ==
    IF todo = {} THEN p
    ELSE LET k == CHOOSE x \in todo : TRUE
             q == [x \in DOMAIN p \cup {k} |-> IF x = k THEN details[k] ELSE p[x]]
         IN  CopyDetails(q, details, todo \ {k})

\* mutant: "msg" is written after the details, so the message always wins
payload_msgLast(msg, details) ==
    [x \in DOMAIN details \cup {"msg"} |-> IF x = "msg" THEN msg ELSE details[x]]

payload(msg, details) ==
    CopyDetails([x \in {"msg"} |-> msg], details, DOMAIN details)

-----------------------------------------------------------------------------
(* fmt: "%-10s" pads on the right to ten characters, "%v" of a map prints  *)
(* map[k:v k:v] with the keys sorted                                       *)

RECURSIVE PadRight(_, _)
PadRight(s, w) == IF Len(s) >= w THEN s ELSE PadRight(s \o " ", w)

RECURSIVE FormatPairs(_, _, _)
FormatPairs(m, i, first) ==
    IF i > Len(SortedKeys) THEN ""
    ELSE LET k == SortedKeys[i] IN
         IF k \in DOMAIN m
         THEN (IF first THEN "" ELSE " ") \o k \o ":" \o m[k]
                  \o FormatPairs(m, i + 1, FALSE)
         ELSE FormatPairs(m, i + 1, first)

FormatMap(m) == "map[" \o FormatPairs(m, 1, TRUE) \o "]"

\* fmt.Sprintf("%-10s: %v", severity.String(), data)
FormatLine(severity, data) ==
    PadRight(SeverityString(severity), 10) \o ": " \o FormatMap(data)

WarnLine ==
    "WARN: Failed to initialize Google Cloud Logging, falling back to backup logger. Error: err"

-----------------------------------------------------------------------------
(* The Logger *)

NoLogger == [systemCtx |-> nil, logger |-> nil, backup |-> nil, gcpClient |-> nil]
NoArgs == [ctx |-> nil, backup |-> nil, labels |-> EmptyMap, ok |-> FALSE]
IdleCaller == [pc |-> "idle", method |-> nil, severity |-> nil, msg |-> nil,
               details |-> EmptyMap, data |-> EmptyMap, useBackup |-> FALSE,
               before |-> NoLogger]
NoInput == [msg |-> nil, details |-> EmptyMap, tokens |-> <<>>, applied |-> FALSE]

RECURSIVE SumLen(_, _)
SumLen(f, S) ==
    IF S = {} THEN 0
    ELSE LET x == CHOOSE y \in S : TRUE IN Len(f[x]) + SumLen(f, S \ {x})

\* number of lines written to all fallback sinks together
TotalBackup(bo) == SumLen(bo, DOMAIN bo)

Init ==
    /\ made = FALSE
    /\ newErr = "none"
    /\ l = NoLogger
    /\ ctxDone = [c \in Contexts |-> FALSE]
    /\ backupOut = [b \in Backups |-> <<>>]
    /\ remoteOut = <<>>
    /\ clientLabels = EmptyMap
    /\ closeResults = <<>>
    /\ releaseResults = <<>>
    /\ calls = <<>>
    /\ callers = [i \in 1..NumCallers |-> IdleCaller]
    /\ given = NoArgs
    /\ pin = NoInput
    /\ pout = EmptyMap

\* the caller of the Logger cancels a context
Cancel(c) ==
    /\ ~ctxDone[c]
    /\ ctxDone' = [ctxDone EXCEPT ![c] = TRUE]
    /\ UNCHANGED <<made, newErr, l, backupOut, remoteOut, clientLabels, closeResults,
                   releaseResults, calls, callers, given, pin, pout>>

\* mutant: a failed acquisition is returned as an error and no Logger is built
NewLogger_strict(ctx, backup, labels) ==
    /\ ~made
    /\ \E ok \in BOOLEAN :
          /\ given' = [ctx |-> ctx, backup |-> backup, labels |-> labels, ok |-> ok]
          /\ IF ok
             THEN /\ l' = [systemCtx |-> ctx, logger |-> "logger", backup |-> backup,
                           gcpClient |-> "client"]
                  /\ clientLabels' = labels
                  /\ made' = TRUE
                  /\ newErr' = "nil"
             ELSE /\ newErr' = "err"
                  /\ UNCHANGED <<l, clientLabels, made>>
    /\ UNCHANGED <<ctxDone, backupOut, remoteOut, closeResults, releaseResults, calls,
                   callers, pin, pout>>

\* NewLogger: logging.NewClient either fails (ok = FALSE) or succeeds
NewLogger(ctx, backup, labels) ==
    /\ ~made
    /\ \E ok \in BOOLEAN :
          /\ given' = [ctx |-> ctx, backup |-> backup, labels |-> labels, ok |-> ok]
          /\ IF ok
             THEN /\ l' = [systemCtx |-> ctx, logger |-> "logger", backup |-> backup,
                           gcpClient |-> "client"]
                  /\ clientLabels' = labels
                  /\ UNCHANGED backupOut
             ELSE /\ backupOut' = [backupOut EXCEPT
                                     ![backup] = Append(@, [line |-> WarnLine, by |-> 0])]
                  /\ l' = [systemCtx |-> ctx, logger |-> nil, backup |-> backup,
                           gcpClient |-> nil]
                  /\ UNCHANGED clientLabels
    /\ made' = TRUE
    /\ newErr' = "nil"
    /\ UNCHANGED <<ctxDone, remoteOut, closeResults, releaseResults, calls, callers,
                   pin, pout>>

\* mutant: the context is never polled
isDone_never(ctx) == FALSE

\* isDone: one non-blocking poll of ctx.Done()
isDone(ctx) == ctxDone[ctx]

\* mutant: the two routing conditions are joined by "and"
UseBackup_and == l.logger = nil /\ isDone(l.systemCtx)

\* the routing condition of log
UseBackup == l.logger = nil \/ isDone(l.systemCtx)

\* l.backup.Printf(...): one line to the Logger's fallback sink
BackupPrintf(line, id) ==
    [backupOut EXCEPT ![l.backup] = Append(@, [line |-> line, by |-> id])]

\* l.logger.Log(entry)
RemoteLog(entry, id) == Append(remoteOut, [entry |-> entry, by |-> id])

\* mutant: the remote branch is not an else branch, the fallback line is always written
log_both(id, severity, msg, details) ==
    LET data == payload(msg, details)
        entry == [Payload |-> data, Severity |-> severity]
    IN  /\ backupOut' = BackupPrintf(FormatLine(severity, data), id)
        /\ IF UseBackup THEN UNCHANGED remoteOut
           ELSE remoteOut' = RemoteLog(entry, id)

\* log, run to completion by call number id
log(id, severity, msg, details) ==
    LET data == payload(msg, details)
        entry == [Payload |-> data, Severity |-> severity]
    IN  IF UseBackup
        THEN /\ backupOut' = BackupPrintf(FormatLine(severity, data), id)
             /\ UNCHANGED remoteOut
        ELSE /\ remoteOut' = RemoteLog(entry, id)
             /\ UNCHANGED backupOut

\* what a sequential level call leaves in the history
Record(method, msg, details) ==
    /\ calls' = Append(calls,
          [method |-> method, msg |-> msg, details |-> details,
           live |-> l.logger # nil, done |-> ctxDone[l.systemCtx],
           closed |-> Len(releaseResults) > 0])
    /\ UNCHANGED <<made, newErr, l, ctxDone, clientLabels, closeResults,
                   releaseResults, callers, given, pin, pout>>

\* mutant: Error logs at Warning severity
Error_asWarning(msg, details) ==
    /\ made /\ Len(calls) < MaxCalls
    /\ log(Len(calls) + 1, SevWarning, msg, details)
    /\ Record("Error", msg, details)

Error(msg, details) ==
    /\ made /\ Len(calls) < MaxCalls
    /\ log(Len(calls) + 1, SevError, msg, details)
    /\ Record("Error", msg, details)

Warn(msg, details) ==
    /\ made /\ Len(calls) < MaxCalls
    /\ log(Len(calls) + 1, SevWarning, msg, details)
    /\ Record("Warn", msg, details)

Info(msg, details) ==
    /\ made /\ Len(calls) < MaxCalls
    /\ log(Len(calls) + 1, SevInfo, msg, details)
    /\ Record("Info", msg, details)

Debug(msg, details) ==
    /\ made /\ Len(calls) < MaxCalls
    /\ log(Len(calls) + 1, SevDebug, msg, details)
    /\ Record("Debug", msg, details)

\* mutant: the release error is swallowed
Close_swallow ==
    /\ made /\ Len(closeResults) < MaxClose
    /\ IF l.gcpClient = nil
       THEN /\ closeResults' = Append(closeResults, "nil")
            /\ UNCHANGED releaseResults
       ELSE \E r \in {"nil", "err"} :
               /\ releaseResults' = Append(releaseResults, r)
               /\ closeResults' = Append(closeResults, "nil")
    /\ UNCHANGED <<made, newErr, l, ctxDone, backupOut, remoteOut, clientLabels,
                   calls, callers, given, pin, pout>>

\* mutant: Close clears the client handle after releasing it
Close_clears ==
    /\ made /\ Len(closeResults) < MaxClose
    /\ IF l.gcpClient = nil
       THEN /\ closeResults' = Append(closeResults, "nil")
            /\ UNCHANGED <<releaseResults, l>>
       ELSE \E r \in {"nil", "err"} :
               /\ releaseResults' = Append(releaseResults, r)
               /\ closeResults' = Append(closeResults, r)
               /\ l' = [l EXCEPT !.gcpClient = nil, !.logger = nil]
    /\ UNCHANGED <<made, newErr, ctxDone, backupOut, remoteOut, clientLabels,
                   calls, callers, given, pin, pout>>

\* Close: gcpClient.Close() returns nil or an error, passed on as it is
Close ==
    /\ made /\ Len(closeResults) < MaxClose
    /\ IF l.gcpClient = nil
       THEN /\ closeResults' = Append(closeResults, "nil")
            /\ UNCHANGED releaseResults
       ELSE \E r \in {"nil", "err"} :
               /\ releaseResults' = Append(releaseResults, r)
               /\ closeResults' = Append(closeResults, r)
    /\ UNCHANGED <<made, newErr, l, ctxDone, backupOut, remoteOut, clientLabels,
                   calls, callers, given, pin, pout>>

Next ==
    \/ \E c \in Contexts, b \in Backups, lb \in LabelSets : NewLogger(c, b, lb)
    \/ \E c \in Contexts : Cancel(c)
    \/ \E m \in Msgs, d \in CallDetails : Error(m, d)
    \/ \E m \in Msgs, d \in CallDetails : Warn(m, d)
    \/ \E m \in Msgs, d \in CallDetails : Info(m, d)
    \/ \E m \in Msgs, d \in CallDetails : Debug(m, d)
    \/ Close

Spec == Init /\ [][Next]_vars

-----------------------------------------------------------------------------
(* Concurrent callers: log() in three steps, so that other callers and a   *)
(* cancellation can run between building the payload, polling the context  *)
(* and writing to the chosen sink                                          *)

\* a level method entered by caller i: data := payload(msg, details)
logBegin(i, method, severity, msg, details) ==
    /\ made
    /\ callers[i].pc = "idle"
    /\ callers' = [callers EXCEPT ![i] =
          [pc |-> "route", method |-> method, severity |-> severity, msg |-> msg,
           details |-> details, data |-> payload(msg, details), useBackup |-> FALSE,
           before |-> l]]
    /\ UNCHANGED <<made, newErr, l, ctxDone, backupOut, remoteOut, clientLabels,
                   closeResults, releaseResults, calls, given, pin, pout>>

ErrorCall(i, msg, details) == logBegin(i, "Error", SevError, msg, details)
WarnCall(i, msg, details) == logBegin(i, "Warn", SevWarning, msg, details)
InfoCall(i, msg, details) == logBegin(i, "Info", SevInfo, msg, details)
DebugCall(i, msg, details) == logBegin(i, "Debug", SevDebug, msg, details)

\* caller i evaluates l.logger == nil || isDone(l.systemCtx)
logRoute(i) ==
    /\ callers[i].pc = "route"
    /\ callers' = [callers EXCEPT ![i].pc = "write", ![i].useBackup = UseBackup]
    /\ UNCHANGED <<made, newErr, l, ctxDone, backupOut, remoteOut, clientLabels,
                   closeResults, releaseResults, calls, given, pin, pout>>

\* mutant: the context is polled again before writing, and a call whose route
\* has changed in between is dropped
logWrite_recheck(i) ==
    /\ callers[i].pc = "write"
    /\ IF callers[i].useBackup # UseBackup
       THEN UNCHANGED <<backupOut, remoteOut>>
       ELSE IF callers[i].useBackup
            THEN /\ backupOut' = BackupPrintf(
                                    FormatLine(callers[i].severity, callers[i].data), i)
                 /\ UNCHANGED remoteOut
            ELSE /\ remoteOut' = RemoteLog([Payload |-> callers[i].data,
                                            Severity |-> callers[i].severity], i)
                 /\ UNCHANGED backupOut
    /\ callers' = [callers EXCEPT ![i].pc = "done"]
    /\ UNCHANGED <<made, newErr, l, ctxDone, clientLabels, closeResults,
                   releaseResults, calls, given, pin, pout>>

\* caller i writes to the sink it chose
logWrite(i) ==
    /\ callers[i].pc = "write"
    /\ IF callers[i].useBackup
       THEN /\ backupOut' = BackupPrintf(
                               FormatLine(callers[i].severity, callers[i].data), i)
            /\ UNCHANGED remoteOut
       ELSE /\ remoteOut' = RemoteLog([Payload |-> callers[i].data,
                                       Severity |-> callers[i].severity], i)
            /\ UNCHANGED backupOut
    /\ callers' = [callers EXCEPT ![i].pc = "done"]
    /\ UNCHANGED <<made, newErr, l, ctxDone, clientLabels, closeResults,
                   releaseResults, calls, given, pin, pout>>

ConcNext ==
    \/ \E lb \in LabelSets : NewLogger("ctx1", "bk1", lb)
    \/ Cancel("ctx1")
    \/ \E i \in 1..NumCallers, m \in Msgs, d \in CallDetails : ErrorCall(i, m, d)
    \/ \E i \in 1..NumCallers, m \in Msgs, d \in CallDetails : WarnCall(i, m, d)
    \/ \E i \in 1..NumCallers, m \in Msgs, d \in CallDetails : InfoCall(i, m, d)
    \/ \E i \in 1..NumCallers, m \in Msgs, d \in CallDetails : DebugCall(i, m, d)
    \/ \E i \in 1..NumCallers : logRoute(i)
    \/ \E i \in 1..NumCallers : logWrite(i)

ConcSpec == Init /\ [][ConcNext]_vars

-----------------------------------------------------------------------------
(* payload as a pure function: the inputs are drawn, then it is applied *)

PayloadInit ==
    /\ made = FALSE
    /\ newErr = "none"
    /\ l = NoLogger
    /\ ctxDone = [c \in Contexts |-> FALSE]
    /\ backupOut = [b \in Backups |-> <<>>]
    /\ remoteOut = <<>>
    /\ clientLabels = EmptyMap
    /\ closeResults = <<>>
    /\ releaseResults = <<>>
    /\ calls = <<>>
    /\ callers = [i \in 1..NumCallers |-> IdleCaller]
    /\ given = NoArgs
    /\ pin \in [msg : PureMsgs, details : MapsOver(PureKeys, PureVals),
                tokens : {<<>>}, applied : {FALSE}]
    /\ pout = EmptyMap

ApplyPayload ==
    /\ ~pin.applied
    /\ pout' = payload(pin.msg, pin.details)
    /\ pin' = [pin EXCEPT !.applied = TRUE]
    /\ UNCHANGED loggerVars

PayloadSpec == PayloadInit /\ [][ApplyPayload]_vars

-----------------------------------------------------------------------------
(* The flat key/value call shape of the variadic variant of the package    *)

RECURSIVE ConsumeTokens(_, _, _)
ConsumeTokens(p, tokens, i) ==
    IF i > Len(tokens) THEN p
    ELSE LET k == tokens[i]
             v == IF i + 1 <= Len(tokens) THEN tokens[i + 1] ELSE "MISSING"
             q == [x \in DOMAIN p \cup {k} |-> IF x = k THEN v ELSE p[x]]
         IN  ConsumeTokens(q, tokens, i + 2)

\* mutant: a trailing key without a value is dropped
buildPayload_dropOdd(msg, tokens) ==
    ConsumeTokens([x \in {"msg"} |-> msg],
                  SubSeq(tokens, 1, Len(tokens) - (Len(tokens) % 2)), 1)

buildPayload(msg, tokens) == ConsumeTokens([x \in {"msg"} |-> msg], tokens, 1)

SeqsUpTo(S, n) == UNION {[1..k -> S] : k \in 0..n}

FlatInit ==
    /\ made = FALSE
    /\ newErr = "none"
    /\ l = NoLogger
    /\ ctxDone = [c \in Contexts |-> FALSE]
    /\ backupOut = [b \in Backups |-> <<>>]
    /\ remoteOut = <<>>
    /\ clientLabels = EmptyMap
    /\ closeResults = <<>>
    /\ releaseResults = <<>>
    /\ calls = <<>>
    /\ callers = [i \in 1..NumCallers |-> IdleCaller]
    /\ given = NoArgs
    /\ pin \in [msg : PureMsgs, details : {EmptyMap},
                tokens : SeqsUpTo(Tokens, MaxTokens), applied : {FALSE}]
    /\ pout = EmptyMap

ApplyFlat ==
    /\ ~pin.applied
    /\ pout' = buildPayload(pin.msg, pin.tokens)
    /\ pin' = [pin EXCEPT !.applied = TRUE]
    /\ UNCHANGED loggerVars

FlatSpec == FlatInit /\ [][ApplyFlat]_vars

-----------------------------------------------------------------------------
(* Properties *)

\* substring test on strings
Contains(s, sub) ==
    \E i \in 1..(Len(s) + 1) :
        i + Len(sub) - 1 <= Len(s) /\ SubSeq(s, i, i + Len(sub) - 1) = sub

\* how many remote entries call id submitted
RemoteBy(id) == Cardinality({j \in 1..Len(remoteOut) : remoteOut[j].by = id})

\* how many lines call id wrote to fallback sink b, and to all sinks
BackupByIn(id, b) == Cardinality({j \in 1..Len(backupOut[b]) : backupOut[b][j].by = id})

RECURSIVE BackupBySum(_, _)
BackupBySum(id, S) ==
    IF S = {} THEN 0
    ELSE LET b == CHOOSE x \in S : TRUE IN BackupByIn(id, b) + BackupBySum(id, S \ {b})

BackupBy(id) == BackupBySum(id, Backups)

\* the severity each level method is documented to log at
MethodSeverity(method) ==
    CASE method = "Error" -> SevError
      [] method = "Warn" -> SevWarning
      [] method = "Info" -> SevInfo
      [] method = "Debug" -> SevDebug

\* the fallback line's fixed-width severity column, per level method
MethodColumn(method) ==
    CASE method = "Error" -> "ERROR     : "
      [] method = "Warn" -> "WARNING   : "
      [] method = "Info" -> "INFO      : "
      [] method = "Debug" -> "DEBUG     : "

\* the line call id wrote to the fallback sink b (when it wrote exactly one)
LineOf(id, b) ==
    backupOut[b][CHOOSE j \in 1..Len(backupOut[b]) : backupOut[b][j].by = id].line

\* C1: every level method, called on a Logger with a live handle and a context
\* that is not cancelled, submits one entry of its own severity to the remote
\* client and writes no fallback line; called on a degraded Logger it writes one
\* fallback line and submits nothing.
C1_RoutingExclusivity ==
    \A i \in 1..Len(calls) :
        LET c == calls[i] IN
        /\ (c.live /\ ~c.done) =>
              /\ RemoteBy(i) = 1
              /\ BackupBy(i) = 0
              /\ \E j \in 1..Len(remoteOut) :
                    /\ remoteOut[j].by = i
                    /\ remoteOut[j].entry.Severity = MethodSeverity(c.method)
        /\ ~c.live => (BackupBy(i) = 1 /\ RemoteBy(i) = 0)

C1_Witness ==
    /\ Len(calls) = 2
    /\ calls[1].method = "Error" /\ calls[2].method = "Debug"
    /\ \A i \in 1..2 : calls[i].live /\ ~calls[i].done /\ RemoteBy(i) = 1

\* C2: whatever NewLogger, level calls, cancellations and Close have run, each
\* level call has delivered its entry to exactly one sink, and the sinks hold
\* nothing else but the construction warning.
C2_ExactlyOneSink ==
    /\ \A i \in 1..Len(calls) : RemoteBy(i) + BackupBy(i) = 1
    /\ Len(remoteOut) + TotalBackup(backupOut) = Len(calls) + BackupBy(0)

C2_Witness ==
    /\ Len(calls) = 2
    /\ RemoteBy(1) = 1 /\ BackupBy(2) = 1
    /\ Len(closeResults) > 0
    /\ ctxDone[l.systemCtx]

\* C3: on a Logger with a live handle the context is polled by every call: a
\* call made while the context is not cancelled adds one remote entry and no
\* fallback line, a call made once it is cancelled adds one fallback line, and
\* from the cancellation on the remote sink never grows again, the Logger being
\* the same instance throughout.
C3_CancellationPerCall ==
    [][ (made /\ l.logger # nil) =>
          /\ l' = l
          /\ ctxDone[l.systemCtx] =>
                (remoteOut' = remoteOut /\ ctxDone'[l.systemCtx])
          /\ Len(calls') > Len(calls) =>
                IF ctxDone[l.systemCtx]
                THEN TotalBackup(backupOut') = TotalBackup(backupOut) + 1
                ELSE /\ Len(remoteOut') = Len(remoteOut) + 1
                     /\ backupOut' = backupOut ]_vars

C3_Witness ==
    /\ made /\ l.logger # nil
    /\ Len(calls) = 2
    /\ ~calls[1].done /\ RemoteBy(1) = 1
    /\ calls[2].done /\ BackupBy(2) = 1 /\ RemoteBy(2) = 0

\* C4: NewLogger never returns an error and always returns a Logger holding the
\* given context and fallback sink. When the acquisition failed both handles
\* are absent from then on, exactly one warning line was written, at
\* construction, to the given sink, and every level call goes to the fallback
\* sink. When it succeeded no warning line is written.
C4_NewLoggerNeverFails ==
    /\ newErr # "err"
    /\ (newErr # "none") = made
    /\ ~made => TotalBackup(backupOut) = 0
    /\ made =>
          /\ newErr = "nil"
          /\ l.systemCtx = given.ctx
          /\ l.backup = given.backup
    /\ (made /\ ~given.ok) =>
          /\ l.logger = nil /\ l.gcpClient = nil
          /\ BackupBy(0) = 1
          /\ backupOut[given.backup][1] = [line |-> WarnLine, by |-> 0]
          /\ remoteOut = <<>>
          /\ \A i \in 1..Len(calls) : BackupByIn(i, given.backup) = 1
    /\ (made /\ given.ok) => BackupBy(0) = 0

C4_Witness ==
    /\ made /\ ~given.ok
    /\ given.ctx = "ctx2" /\ given.backup = "bk2"
    /\ Len(calls) = 2
    /\ Len(closeResults) > 0

\* C5: Close on a degraded Logger returns nil and never calls the client's
\* Close; Close on a Logger with a client calls the client's Close once per
\* call and returns what it returned.
C5_CloseResult ==
    made =>
       IF l.gcpClient = nil
       THEN /\ releaseResults = <<>>
            /\ \A i \in 1..Len(closeResults) : closeResults[i] = "nil"
       ELSE closeResults = releaseResults

C5_Witness ==
    /\ made /\ l.gcpClient # nil
    /\ Len(closeResults) = MaxClose
    /\ closeResults[MaxClose] = "err"

\* C6: payload(M, F) has exactly the keys of F and "msg"; every key of F carries
\* F's value, "msg" carries M unless F has its own "msg"; its size is |F| + 1
\* without a "msg" key in F and |F| with one, and 1 for an empty F.
C6_PayloadContents ==
    pin.applied =>
       LET M == pin.msg
           F == pin.details
       IN  /\ DOMAIN pout = DOMAIN F \cup {"msg"}
           /\ \A k \in DOMAIN F : pout[k] = F[k]
           /\ "msg" \notin DOMAIN F => pout["msg"] = M
           /\ Cardinality(DOMAIN pout) =
                 IF "msg" \in DOMAIN F THEN Cardinality(DOMAIN F)
                 ELSE Cardinality(DOMAIN F) + 1
           /\ F = EmptyMap => Cardinality(DOMAIN pout) = 1

C6_Witness ==
    /\ pin.applied
    /\ DOMAIN pin.details = {"k1", "k2", "msg"}
    /\ pin.msg = "boom" /\ pin.details["msg"] = "w"
    /\ pout["msg"] = "w"

\* C7 as stated: on a degraded Logger each level call writes one fallback line
\* made of its method's severity column and the payload, and the line contains
\* the caller's message, a key:value pair for every detail, and no common label.
C7_Original ==
    (made /\ l.logger = nil) =>
       \A i \in 1..Len(calls) :
          LET c == calls[i]
              line == LineOf(i, l.backup)
          IN  /\ BackupByIn(i, l.backup) = 1
              /\ SubSeq(line, 1, 12) = MethodColumn(c.method)
              /\ Contains(line, c.msg)
              /\ \A k \in DOMAIN c.details : Contains(line, k \o ":" \o c.details[k])
              /\ ~Contains(line, "env") /\ ~Contains(line, "test")

\* C7 (amended): on a degraded Logger each level call writes one fallback line
\* made of its method's severity column and the payload printed as a map; the
\* line contains a key:value pair for every detail, and "msg:" followed by the
\* caller's message unless the details have their own "msg" key, and no common
\* label.
C7_FallbackLine ==
    (made /\ l.logger = nil) =>
       \A i \in 1..Len(calls) :
          LET c == calls[i]
              line == LineOf(i, l.backup)
          IN  /\ BackupByIn(i, l.backup) = 1
              /\ SubSeq(line, 1, 12) = MethodColumn(c.method)
              /\ SubSeq(line, 13, 16) = "map["
              /\ "msg" \notin DOMAIN c.details => Contains(line, "msg:" \o c.msg)
              /\ \A k \in DOMAIN c.details : Contains(line, k \o ":" \o c.details[k])
              /\ ~Contains(line, "env") /\ ~Contains(line, "test")

C7_Witness ==
    /\ made /\ l.logger = nil
    /\ Len(calls) = 2
    /\ calls[1].method = "Error" /\ calls[1].details = [x \in {"k"} |-> "v"]
    /\ LineOf(1, l.backup) = "ERROR     : map[k:v msg:boom]"
    /\ calls[2].method = "Warn" /\ calls[2].details = [x \in {"msg"} |-> "v"]
    /\ LineOf(2, l.backup) = "WARNING   : map[msg:v]"

\* writes made by the concurrent callers
CallerWrites == Len(remoteOut) + TotalBackup(backupOut) - BackupBy(0)

\* C8: with the callers interleaved with each other and with a cancellation,
\* the sinks hold exactly one write per finished call (so N when all N callers
\* have finished) and none of an unfinished one, and from the moment a caller
\* enters its call the Logger's fields are what they were when it entered.
C8_ConcurrentCallers ==
    /\ CallerWrites = Cardinality({i \in 1..NumCallers : callers[i].pc = "done"})
    /\ \A i \in 1..NumCallers :
          /\ RemoteBy(i) + BackupBy(i) = (IF callers[i].pc = "done" THEN 1 ELSE 0)
          /\ callers[i].pc # "idle" => l = callers[i].before

C8_Witness ==
    /\ \A i \in 1..NumCallers : callers[i].pc = "done"
    /\ CallerWrites = NumCallers
    /\ l.logger # nil
    /\ ctxDone[l.systemCtx]
    /\ \E i \in 1..NumCallers : callers[i].useBackup /\ BackupBy(i) = 1
    /\ \E i \in 1..NumCallers : ~callers[i].useBackup /\ RemoteBy(i) = 1

\* C9: a flat key/value sequence of odd length ending in key K gives a payload
\* in which K carries "MISSING".
C9_OddFieldWidening ==
    (pin.applied /\ Len(pin.tokens) % 2 = 1) =>
       LET K == pin.tokens[Len(pin.tokens)]
       IN  K \in DOMAIN pout /\ pout[K] = "MISSING"

C9_Witness ==
    /\ pin.applied
    /\ pin.tokens = <<"k", "v", "msg">>
    /\ pout = [x \in {"k", "msg"} |-> IF x = "k" THEN "v" ELSE "MISSING"]

\* C10: the routing handle and the client handle are both absent or both
\* present, Close leaves every field of the Logger as NewLogger set it, and a
\* level call made after Close on a Logger with a client, its context not
\* cancelled, is still submitted to the remote client with no fallback line.
C10_CloseKeepsHandles ==
    /\ (l.logger = nil) = (l.gcpClient = nil)
    /\ made =>
          l = [systemCtx |-> given.ctx,
               logger |-> IF given.ok THEN "logger" ELSE nil,
               backup |-> given.backup,
               gcpClient |-> IF given.ok THEN "client" ELSE nil]
    /\ \A i \in 1..Len(calls) :
          /\ (given.ok /\ calls[i].closed) => calls[i].live
          /\ (calls[i].closed /\ calls[i].live /\ ~calls[i].done) =>
                (RemoteBy(i) = 1 /\ BackupBy(i) = 0)

C10_Witness ==
    /\ Len(releaseResults) > 0
    /\ \E i \in 1..Len(calls) :
          calls[i].closed /\ calls[i].live /\ ~calls[i].done /\ RemoteBy(i) = 1

=============================================================================
